---- MODULE Spec2Model ----
(***************************************************************************)
(* A model of the mailyak message type: its setters (setters.go), its      *)
(* constructors, the SMTP session driven by Send and the redacted          *)
(* rendering String (mailyak.go).                                          *)
(*                                                                         *)
(* A Go string is a sequence of one-character strings.  The net/smtp       *)
(* client Send drives is modelled by what each call does to the            *)
(* connection and to the replies in flight; whether the server accepts a   *)
(* command is chosen by the environment.                                   *)
(***************************************************************************)
EXTENDS Integers, Sequences, FiniteSets

(* ------------------------------ bounds -------------------------------- *)

\* longest input string handed to a setter in Spec
MaxStrLen == 2
\* most addresses handed to To or Bcc in one call
MaxAddrs == 2
\* most setter calls made on one message in Spec
MaxCalls == 2

(* ------------------------------ inputs -------------------------------- *)

CR == "\r"
LF == "\n"

Chars == {"a", CR, LF}

\* every string over Chars of at most n characters
StrsUpTo(n) == UNION {[1..k -> Chars] : k \in 0..n}

\* every list of at most n elements of S
ListsUpTo(S, n) == UNION {[1..k -> S] : k \in 0..n}

Strs == StrsUpTo(MaxStrLen)

\* the strings the setters are called with before a Send: a plain address
\* and one that ends in a line break
SendStrs == {<<"a">>, <<"b", CR, LF>>}

Hosts == {"mx:25"}
Secrets == {"s1", "s2"}
NoAuth == "nil"
Auths == Secrets \cup {NoAuth}

\* what the server can advertise in its EHLO reply
Exts == {"STARTTLS", "AUTH"}

\* the replies a server gives to the end-of-data terminator
FinalReplies == {[code |-> 250, msg |-> "queued"], [code |-> 554, msg |-> "rejected"]}
\* what a server that gives up on an idle session sends
IdleReply == [code |-> 421, msg |-> "timeout"]
NoReply == [code |-> 0, msg |-> ""]

VARIABLES
    m,          \* the MailYak value
    calls,      \* setter calls made so far (bounded in Spec)
    call,       \* the most recent call on the message and its arguments
    ret,        \* what the most recent call returned
    pc,         \* where the running Send is; "idle" between calls, "done" at its return
    conn,       \* the connection of the running Send: "none", "open", "closed"
    steps,      \* the calls Send has made on the client, in order
    ext,        \* the extensions the client knows the server to advertise
    idx,        \* the index of the next To address to declare
    unread,     \* server replies sent and not yet read by the client
    final,      \* the server's reply to the end-of-data terminator
    peerClosed  \* the server has dropped the connection

vars == <<m, calls, call, ret, pc, conn, steps, ext, idx, unread, final, peerClosed>>

(* --------------------------- the message ------------------------------ *)

\* regexp "\r?\n" replaced by "": leftmost match first, scanning left to right
RECURSIVE TrimRegex(_)
TrimRegex(s) ==
    IF s = <<>> THEN <<>>
    ELSE IF Head(s) = LF THEN TrimRegex(Tail(s))
    ELSE IF Head(s) = CR /\ Len(s) >= 2 /\ s[2] = LF THEN TrimRegex(Tail(Tail(s)))
    ELSE <<Head(s)>> \o TrimRegex(Tail(s))

\* the fields the constructors leave at their zero value
BlankFields(host, auth) ==
    [ html |-> <<>>, plain |-> <<>>,
      toAddrs |-> <<>>, ccAddrs |-> <<>>, bccAddrs |-> <<>>,
      subject |-> <<>>, fromAddr |-> <<>>, fromName |-> <<>>, replyTo |-> <<>>,
      headers |-> <<>>, attachments |-> <<>>,
      auth |-> auth, host |-> host,
      writeBccHeader |-> FALSE, date |-> "now" ]

NewBlank == BlankFields("", NoAuth)

New(host, auth) == BlankFields(host, auth)

NoReturn == [kind |-> "none"]

Called(name, args) == [name |-> name, args |-> args]

\* the locals of a Send that has returned are gone when the next call starts
NoRun ==
    /\ pc' = "idle"
    /\ conn' = "none"
    /\ steps' = <<>>
    /\ ext' = {}
    /\ idx' = 1
    /\ unread' = <<>>
    /\ final' = NoReply
    /\ peerClosed' = FALSE

Callable == pc \in {"idle", "done"}

Init ==
    /\ m \in {NewBlank} \cup {New(h, a) : h \in Hosts, a \in Auths}
    /\ calls = 0
    /\ call = Called("New", <<>>)
    /\ ret = NoReturn
    /\ pc = "idle"
    /\ conn = "none"
    /\ steps = <<>>
    /\ ext = {}
    /\ idx = 1
    /\ unread = <<>>
    /\ final = NoReply
    /\ peerClosed = FALSE

(* ----------------------------- setters -------------------------------- *)

\* the setters are called on a message that is not being sent
Setter(msg) ==
    /\ pc = "idle"
    /\ m' = msg
    /\ ret' = NoReturn
    /\ NoRun

To(addrs) ==
    /\ call' = Called("To", addrs)
    /\ Setter([m EXCEPT !.toAddrs = [i \in 1..Len(addrs) |-> TrimRegex(addrs[i])]])

Bcc(addrs) ==
    /\ call' = Called("Bcc", addrs)
    /\ Setter([m EXCEPT !.bccAddrs = [i \in 1..Len(addrs) |-> TrimRegex(addrs[i])]])

From(addr) ==
    /\ call' = Called("From", <<addr>>)
    /\ Setter([m EXCEPT !.fromAddr = addr])

FromName(name) ==
    /\ call' = Called("FromName", <<name>>)
    /\ Setter([m EXCEPT !.fromName = name])

ReplyTo(addr) ==
    /\ call' = Called("ReplyTo", <<addr>>)
    /\ Setter([m EXCEPT !.replyTo = addr])

Subject(sub) ==
    /\ call' = Called("Subject", <<sub>>)
    /\ Setter([m EXCEPT !.subject = TrimRegex(sub)])

Host(value) ==
    /\ call' = Called("Host", <<<<value>>>>)
    /\ Setter([m EXCEPT !.host = value])

Auth(value) ==
    /\ call' = Called("Auth", <<<<value>>>>)
    /\ Setter([m EXCEPT !.auth = value])

(* ------------------------------ String -------------------------------- *)

Digits == <<"0", "1", "2", "3", "4", "5", "6", "7", "8", "9">>

\* %v of an int
RECURSIVE Itoa(_)
Itoa(n) == IF n < 10 THEN <<Digits[n + 1]>> ELSE Itoa(n \div 10) \o <<Digits[(n % 10) + 1]>>

RECURSIVE Escaped(_)
Escaped(s) ==
    IF s = <<>> THEN <<>>
    ELSE (CASE Head(s) = CR -> <<"\\", "r">>
            [] Head(s) = LF -> <<"\\", "n">>
            [] Head(s) = "\"" -> <<"\\", "\"">>
            [] Head(s) = "\\" -> <<"\\", "\\">>
            [] OTHER -> <<Head(s)>>) \o Escaped(Tail(s))

\* %q of a string
GoQuote(s) == <<"\"">> \o Escaped(s) \o <<"\"">>

RECURSIVE Join(_, _)
Join(l, sep) ==
    IF l = <<>> THEN <<>>
    ELSE IF Len(l) = 1 THEN l[1]
    ELSE l[1] \o <<sep>> \o Join(Tail(l), sep)

\* %v of a []string
FmtSlice(l) == <<"[">> \o Join(l, " ") \o <<"]">>

\* the "{filename: ...}" entries, one per attachment
Att(msg) == [i \in 1..Len(msg.attachments) |-> <<"{filename: ">> \o msg.attachments[i].filename \o <<"}">>]

\* the custom headers, in the order the map iteration yields them
Custom(msg) ==
    IF Len(msg.headers) > 0
    THEN Join([i \in 1..Len(msg.headers) |->
                  msg.headers[i][1] \o <<": ">> \o GoQuote(msg.headers[i][2])], ", ") \o <<", ">>
    ELSE <<>>

\* what the rendering shows of the credential
AuthShown(msg) == msg.auth
AuthSet(msg) == IF msg.auth # NoAuth THEN "true" ELSE "false"

Render(msg) ==
    <<"&MailYak{date: ">> \o GoQuote(<<msg.date>>)
    \o <<", from: ">> \o GoQuote(msg.fromAddr)
    \o <<", fromName: ">> \o GoQuote(msg.fromName)
    \o <<", html: ">> \o Itoa(Len(msg.html)) \o <<" bytes, plain: ">> \o Itoa(Len(msg.plain))
    \o <<" bytes, toAddrs: ">> \o FmtSlice(msg.toAddrs)
    \o <<", bccAddrs: ">> \o FmtSlice(msg.bccAddrs)
    \o <<", subject: ">> \o GoQuote(msg.subject)
    \o <<", ">> \o Custom(msg)
    \o <<"host: ">> \o GoQuote(<<msg.host>>)
    \o <<", attachments (">> \o Itoa(Len(Att(msg))) \o <<"): ">> \o FmtSlice(Att(msg))
    \o <<", auth set: ">> \o <<AuthSet(msg)>> \o <<"}">>

String ==
    /\ Callable
    /\ call' = Called("String", <<>>)
    /\ ret' = [kind |-> "string", text |-> Render(m)]
    /\ NoRun
    /\ UNCHANGED <<m, calls>>

(* ------------------------------- Send --------------------------------- *)

\* how a call on the client can end: it succeeds, the server answers with an
\* error code (a *textproto.Error), or the connection fails under it
Outcomes == {"ok", "rejected", "io"}

Step(op, arg, out) == [op |-> op, arg |-> arg, ok |-> out = "ok", out |-> out]

Ops(log) == {log[i].op : i \in 1..Len(log)}

SendOk(reply) ==
    [kind |-> "send", code |-> reply.code, msg |-> reply.msg, err |-> "nil", why |-> "nil"]
\* err names the call whose error is returned, why is the kind of that error
SendErrOpaque(code, err, why) ==
    [kind |-> "send", code |-> code, msg |-> "", err |-> err, why |-> "rejected"]
SendErr(code, err, why) ==
    [kind |-> "send", code |-> code, msg |-> "", err |-> err, why |-> why]

\* defer smtpClient.Close()
DeferredCloseSkipped(c) == c
DeferredClose(c) == "closed"

\* return -1, "", err before the defer statement is reached
ReturnEarly(err, why) ==
    /\ ret' = SendErr(-1, err, why)
    /\ pc' = "done"
    /\ conn' = conn

\* return -1, "", err once the deferred Close is in place
Return(err, why) ==
    /\ ret' = SendErr(-1, err, why)
    /\ pc' = "done"
    /\ conn' = DeferredClose(conn)

\* how buildMime can end: with the document, or with the error of reading an
\* attachment
BuildOutcomes == {"ok", "io"}

\* the call of Send up to the result of buildMime
SendBuildIgnoringError ==
    /\ Callable
    /\ call' = Called("Send", <<>>)
    /\ ext' = {}
    /\ idx' = 1
    /\ unread' = <<>>
    /\ final' = NoReply
    /\ peerClosed' = FALSE
    /\ UNCHANGED <<m, calls>>
    /\ \E out \in BuildOutcomes :
          /\ steps' = <<Step("BUILD", <<>>, out)>>
          /\ pc' = "dial" /\ conn' = "none" /\ ret' = NoReturn
SendBuild ==
    /\ Callable
    /\ call' = Called("Send", <<>>)
    /\ ext' = {}
    /\ idx' = 1
    /\ unread' = <<>>
    /\ final' = NoReply
    /\ peerClosed' = FALSE
    /\ UNCHANGED <<m, calls>>
    /\ \E out \in BuildOutcomes :
          /\ steps' = <<Step("BUILD", <<>>, out)>>
          /\ IF out = "ok"
             THEN pc' = "dial" /\ conn' = "none" /\ ret' = NoReturn
             ELSE ret' = SendErr(-1, "BUILD", out) /\ pc' = "done" /\ conn' = "none"

\* MimeBuf: the buffer of buildMime, or nil and its error
MimeBuf ==
    /\ Callable
    /\ call' = Called("MimeBuf", <<>>)
    /\ NoRun
    /\ UNCHANGED <<m, calls>>
    /\ \E out \in BuildOutcomes :
          ret' = IF out = "ok"
                 THEN [kind |-> "mime", buf |-> "document", err |-> "nil", why |-> "nil"]
                 ELSE [kind |-> "mime", buf |-> "nil", err |-> "BUILD", why |-> out]

\* smtp.Dial(m.host): connects and reads the greeting
SendDial ==
    /\ pc = "dial"
    /\ UNCHANGED <<m, calls, call, ext, idx, unread, final, peerClosed>>
    /\ \E out \in (IF m.host # "" THEN Outcomes ELSE {"io"}) :
          LET ok == out = "ok" IN
          /\ steps' = Append(steps, Step("DIAL", <<m.host>>, out))
          /\ IF ok
             THEN pc' = "hello" /\ conn' = "open" /\ UNCHANGED ret
             ELSE ReturnEarly("DIAL", out)

\* smtpClient.Hello(localHostName): EHLO (or HELO), learning the extensions
SendHello ==
    /\ pc = "hello"
    /\ UNCHANGED <<m, calls, call, idx, unread, final, peerClosed>>
    /\ \E out \in Outcomes, e \in SUBSET Exts :
          LET ok == out = "ok" IN
          /\ steps' = Append(steps, Step("EHLO", IF ok THEN e ELSE {}, out))
          /\ IF ok
             THEN ext' = e /\ pc' = "tls" /\ UNCHANGED <<conn, ret>>
             ELSE ext' = ext /\ Return("EHLO", out)

\* if ok, _ := smtpClient.Extension("STARTTLS"); ok { StartTLS }
\* StartTLS repeats EHLO on the upgraded connection
SendStartTLSIgnoringError ==
    /\ pc = "tls"
    /\ UNCHANGED <<m, calls, call, idx, unread, final, peerClosed, conn, ret>>
    /\ pc' = "auth"
    /\ IF "STARTTLS" \in ext
       THEN \E out \in Outcomes :
               LET ok == out = "ok" IN
               /\ steps' = Append(steps, Step("STARTTLS", <<>>, out))
               /\ IF ok THEN \E e \in SUBSET Exts : ext' = e ELSE ext' = ext
       ELSE UNCHANGED <<steps, ext>>
SendStartTLS ==
    /\ pc = "tls"
    /\ UNCHANGED <<m, calls, call, idx, unread, final, peerClosed>>
    /\ IF "STARTTLS" \in ext
       THEN \E out \in Outcomes :
               LET ok == out = "ok" IN
               /\ steps' = Append(steps, Step("STARTTLS", <<>>, out))
               /\ IF ok
                  THEN /\ \E e \in SUBSET Exts : ext' = e
                       /\ pc' = "auth"
                       /\ UNCHANGED <<conn, ret>>
                  ELSE ext' = ext /\ Return("STARTTLS", out)
       ELSE pc' = "auth" /\ UNCHANGED <<steps, ext, conn, ret>>

\* if hasAuth && m.auth != nil { smtpClient.Auth(m.auth) }: the error is dropped.
\* A failed Auth ends with the client's Quit, which closes the connection
\* when the server answers 221.
SendAuth ==
    /\ pc = "auth"
    /\ UNCHANGED <<m, calls, call, ext, idx, unread, final, peerClosed, ret>>
    /\ pc' = "mail"
    /\ IF "AUTH" \in ext /\ m.auth # NoAuth
       THEN \E out \in Outcomes :
               LET ok == out = "ok" IN
               /\ steps' = Append(steps, Step("AUTH", <<m.auth>>, out))
               /\ IF ok
                  THEN conn' = conn
                  ELSE \E quit \in BOOLEAN : conn' = IF quit THEN "closed" ELSE conn
       ELSE UNCHANGED <<steps, conn>>

\* smtpClient.Mail(m.fromAddr)
SendMailTrimming ==
    /\ pc = "mail"
    /\ UNCHANGED <<calls, call, ext, idx, unread, final, peerClosed>>
    /\ m' = [m EXCEPT !.fromAddr = TrimRegex(@)]
    /\ \E out \in (IF conn = "open" THEN Outcomes ELSE {"io"}) :
          LET ok == out = "ok" IN
          /\ steps' = Append(steps, Step("MAIL", m'.fromAddr, out))
          /\ IF ok
             THEN pc' = "rcpt" /\ UNCHANGED <<conn, ret>>
             ELSE Return("MAIL", out)
SendMail ==
    /\ pc = "mail"
    /\ UNCHANGED <<m, calls, call, ext, idx, unread, final, peerClosed>>
    /\ \E out \in (IF conn = "open" THEN Outcomes ELSE {"io"}) :
          LET ok == out = "ok" IN
          /\ steps' = Append(steps, Step("MAIL", m.fromAddr, out))
          /\ IF ok
             THEN pc' = "rcpt" /\ UNCHANGED <<conn, ret>>
             ELSE Return("MAIL", out)

\* the list the RCPT loop ranges over
RecipientsWithBcc(msg) == msg.toAddrs \o msg.bccAddrs
Recipients(msg) == msg.toAddrs

\* one iteration of the loop: smtpClient.Rcpt(addr), stopping the loop on an error
SendRcptIgnoringError ==
    /\ pc = "rcpt"
    /\ idx <= Len(Recipients(m))
    /\ UNCHANGED <<m, calls, call, ext, unread, final, peerClosed>>
    /\ \E out \in Outcomes :
          LET ok == out = "ok" IN
          /\ steps' = Append(steps, Step("RCPT", Recipients(m)[idx], out))
          /\ idx' = idx + 1 /\ pc' = "rcpt" /\ UNCHANGED <<conn, ret>>
SendRcpt ==
    /\ pc = "rcpt"
    /\ idx <= Len(Recipients(m))
    /\ UNCHANGED <<m, calls, call, ext, unread, final, peerClosed>>
    /\ \E out \in Outcomes :
          LET ok == out = "ok" IN
          /\ steps' = Append(steps, Step("RCPT", Recipients(m)[idx], out))
          /\ IF ok
             THEN idx' = idx + 1 /\ pc' = "rcpt" /\ UNCHANGED <<conn, ret>>
             ELSE idx' = idx /\ Return("RCPT", out)

\* the loop is over: smtpClient.Data()
SendDataEarly ==
    /\ pc = "rcpt"
    /\ UNCHANGED <<m, calls, call, ext, idx, unread, final, peerClosed>>
    /\ \E out \in Outcomes :
          LET ok == out = "ok" IN
          /\ steps' = Append(steps, Step("DATA", <<>>, out))
          /\ IF ok
             THEN pc' = "write" /\ UNCHANGED <<conn, ret>>
             ELSE Return("DATA", out)
SendData ==
    /\ pc = "rcpt"
    /\ idx > Len(Recipients(m))
    /\ UNCHANGED <<m, calls, call, ext, idx, unread, final, peerClosed>>
    /\ \E out \in Outcomes :
          LET ok == out = "ok" IN
          /\ steps' = Append(steps, Step("DATA", <<>>, out))
          /\ IF ok
             THEN pc' = "write" /\ UNCHANGED <<conn, ret>>
             ELSE Return("DATA", out)

\* w.Write(buf.Bytes())
SendWrite ==
    /\ pc = "write"
    /\ UNCHANGED <<m, calls, call, ext, idx, unread, final, peerClosed>>
    /\ \E out \in {"ok", "io"} :
          LET ok == out = "ok" IN
          /\ steps' = Append(steps, Step("WRITE", <<>>, out))
          /\ IF ok
             THEN pc' = "close" /\ UNCHANGED <<conn, ret>>
             ELSE Return("WRITE", out)

\* w.Close(): net/smtp writes the terminator and reads the server's reply to
\* it, expecting 250; no reply is left unread
\* what the read of the reply to the terminator, expecting 250, yields
CloseOutcome(reply) ==
    IF reply = NoReply THEN "io" ELSE IF reply.code = 250 THEN "ok" ELSE "rejected"

SendClose ==
    /\ pc = "close"
    /\ UNCHANGED <<m, calls, call, ext, idx, peerClosed>>
    /\ unread' = <<>>
    /\ \E reply \in FinalReplies \cup {NoReply} :
          LET out == CloseOutcome(reply) IN
          /\ final' = reply
          /\ steps' = Append(steps, Step("CLOSE", <<>>, out))
          /\ IF out = "ok"
             THEN pc' = "read" /\ UNCHANGED <<conn, ret>>
             ELSE Return("CLOSE", out)

\* while Send waits in ReadResponse with nothing in flight, a server that
\* gives up on the idle session says so or drops the connection
ServerIdle ==
    /\ pc = "read"
    /\ unread = <<>>
    /\ ~peerClosed
    /\ UNCHANGED <<m, calls, call, ret, pc, conn, steps, ext, idx, final>>
    /\ \/ unread' = <<IdleReply>> /\ peerClosed' = peerClosed
       \/ peerClosed' = TRUE /\ unread' = unread

\* return smtpClient.Text.ReadResponse(0): blocks until a line or the end of
\* the stream arrives
SendReadResponse ==
    /\ pc = "read"
    /\ unread # <<>> \/ peerClosed
    /\ UNCHANGED <<m, calls, call, ext, idx, final, peerClosed>>
    /\ steps' = Append(steps, Step("READ", <<>>, IF unread # <<>> THEN "ok" ELSE "io"))
    /\ pc' = "done"
    /\ conn' = DeferredClose(conn)
    /\ IF unread # <<>>
       THEN ret' = SendOk(Head(unread)) /\ unread' = Tail(unread)
       ELSE ret' = SendErr(0, "READ", "io") /\ unread' = unread

(* --------------------------- specifications --------------------------- *)

\* Spec: a message and at most MaxCalls setter calls with every input string
\* over Chars, and String
CallTo ==
    /\ calls < MaxCalls /\ calls' = calls + 1
    /\ \E addrs \in ListsUpTo(Strs, MaxAddrs) : To(addrs)
CallBcc ==
    /\ calls < MaxCalls /\ calls' = calls + 1
    /\ \E addrs \in ListsUpTo(Strs, MaxAddrs) : Bcc(addrs)
CallFrom ==
    /\ calls < MaxCalls /\ calls' = calls + 1
    /\ \E addr \in Strs : From(addr)
CallFromName ==
    /\ calls < MaxCalls /\ calls' = calls + 1
    /\ \E name \in Strs : FromName(name)
CallReplyTo ==
    /\ calls < MaxCalls /\ calls' = calls + 1
    /\ \E addr \in Strs : ReplyTo(addr)
CallSubject ==
    /\ calls < MaxCalls /\ calls' = calls + 1
    /\ \E sub \in Strs : Subject(sub)
CallHost ==
    /\ calls < MaxCalls /\ calls' = calls + 1
    /\ \E value \in Hosts : Host(value)
CallAuth ==
    /\ calls < MaxCalls /\ calls' = calls + 1
    /\ \E value \in Auths : Auth(value)

Next ==
    \/ CallTo
    \/ CallBcc
    \/ CallFrom
    \/ CallFromName
    \/ CallReplyTo
    \/ CallSubject
    \/ CallHost
    \/ CallAuth
    \/ String

Spec == Init /\ [][Next]_vars

\* SpecSend: a message filled by the setters the envelope depends on, then
\* sent, any number of times
PrepareTo == UNCHANGED calls /\ \E addrs \in ListsUpTo(SendStrs, MaxAddrs) : To(addrs)
PrepareBcc == UNCHANGED calls /\ \E addrs \in ListsUpTo(SendStrs, MaxAddrs) : Bcc(addrs)
PrepareFrom == UNCHANGED calls /\ \E addr \in SendStrs : From(addr)
PrepareAuth == UNCHANGED calls /\ \E value \in Auths : Auth(value)

NextSend ==
    \/ PrepareTo
    \/ PrepareBcc
    \/ PrepareFrom
    \/ PrepareAuth
    \/ String
    \/ MimeBuf
    \/ SendBuild
    \/ SendDial
    \/ SendHello
    \/ SendStartTLS
    \/ SendAuth
    \/ SendMail
    \/ SendRcpt
    \/ SendData
    \/ SendWrite
    \/ SendClose
    \/ ServerIdle
    \/ SendReadResponse

SpecSend == Init /\ [][NextSend]_vars

(* ------------------------------ claims -------------------------------- *)

HasBreak(s) == \E i \in 1..Len(s) : s[i] \in {CR, LF}

\* the places in the log where op was called
At(op) == {i \in 1..Len(steps) : steps[i].op = op}

Failed(i) == ~steps[i].ok

\* the addresses declared with RCPT TO, in order
Rcpts == LET r == SelectSeq(steps, LAMBDA st : st.op = "RCPT") IN [i \in 1..Len(r) |-> r[i].arg]

IsPrefix(a, b) == Len(a) <= Len(b) /\ \A i \in 1..Len(a) : a[i] = b[i]

Returned == pc = "done" /\ ret.kind = "send"

\* C1: after any sequence of To, Bcc and Subject calls no element of the To
\* list, no element of the Bcc list and not the subject holds a '\r' or a '\n'.
C1_NoLineBreakStored ==
    /\ \A i \in 1..Len(m.toAddrs) : ~HasBreak(m.toAddrs[i])
    /\ \A i \in 1..Len(m.bccAddrs) : ~HasBreak(m.bccAddrs[i])
    /\ ~HasBreak(m.subject)

\* C2: the sender address, the sender name and the reply-to address read back
\* after From, FromName and ReplyTo hold no '\r' and no '\n'.
C2_SenderFieldsSanitized ==
    /\ ~HasBreak(m.fromAddr)
    /\ ~HasBreak(m.fromName)
    /\ ~HasBreak(m.replyTo)

\* C3: once an authentication has failed, Send issues no MAIL FROM, RCPT TO or
\* DATA, and it returns an error.
C3_AuthFailureFatal ==
    \A i \in At("AUTH") :
        Failed(i) =>
            /\ \A j \in 1..Len(steps) : j > i => steps[j].op \notin {"MAIL", "RCPT", "DATA"}
            /\ Returned => ret.err # "nil"

\* C4: a rejected RCPT TO is the last thing the run does: no later RCPT TO, no
\* DATA, no write, and Send has returned -1 with the error of that RCPT TO.
C4_RcptRejectionAborts ==
    \A i \in At("RCPT") :
        Failed(i) =>
            /\ i = Len(steps)
            /\ Returned
            /\ ret.err = "RCPT"
            /\ ret.code = -1

C4_Witness ==
    /\ Returned
    /\ Len(m.toAddrs) = 2
    /\ Len(Rcpts) = 2
    /\ steps[Len(steps)].op = "RCPT"
    /\ Failed(Len(steps))

\* C5: when Send has returned, the connection is closed if the dial succeeded
\* and was never opened otherwise; no connection exists without a successful dial.
C5_ConnectionReleased ==
    LET dialed == \E i \in At("DIAL") : steps[i].ok
    IN  /\ Returned => conn = (IF dialed THEN "closed" ELSE "none")
        /\ conn # "none" => dialed

C5_Witness ==
    /\ Returned
    /\ conn = "closed"
    /\ ret.err = "WRITE"

\* C6: when the data stream was closed with success, the server's reply to the
\* terminator is still unread when Send starts its final read, and Send
\* returns the code and message of that reply.
C6_FinalStatusRelayed ==
    /\ pc = "read" => unread = <<final>>
    /\ (Returned /\ \E i \in At("CLOSE") : steps[i].ok) => ret = SendOk(final)

\* C7: a STARTTLS comes before any AUTH and MAIL FROM and is made exactly when
\* the EHLO reply advertised it; a failed STARTTLS ends the run with its error
\* and no MAIL FROM; without the advertisement no STARTTLS is issued and no
\* run fails at that stage.
C7_OpportunisticStartTLS ==
    /\ \A i \in At("STARTTLS") :
          /\ \A j \in At("AUTH") \cup At("MAIL") : i < j
          /\ Failed(i) => /\ i = Len(steps)
                          /\ Returned
                          /\ ret.err = "STARTTLS"
    /\ \A h \in At("EHLO") :
          /\ ("STARTTLS" \in steps[h].arg /\ pc # "tls") =>
                 (Len(steps) > h /\ steps[h + 1].op = "STARTTLS")
          /\ (steps[h].ok /\ "STARTTLS" \notin steps[h].arg) =>
                 /\ At("STARTTLS") = {}
                 /\ Returned => ret.err # "STARTTLS"
                 /\ pc \notin {"tls", "hello"} => (Len(steps) > h => steps[h + 1].op \in {"AUTH", "MAIL"})

C7_Witness ==
    /\ \E h \in At("EHLO") : steps[h].ok /\ "STARTTLS" \notin steps[h].arg
    /\ \E i \in At("CLOSE") : steps[i].ok
    /\ Len(Rcpts) = 2

\* C8: the RCPT TO commands follow the To list element for element; once the
\* loop is over they are the whole To list, and nothing else is ever declared.
C8_EnvelopeIsToList ==
    /\ IsPrefix(Rcpts, m.toAddrs)
    /\ At("DATA") # {} => Rcpts = m.toAddrs

C8_Witness ==
    /\ At("DATA") # {}
    /\ m.toAddrs = <<<<"b">>, <<"b">>>>
    /\ m.bccAddrs = <<<<"a">>>>

\* C9: the text String returned for a message with a credential is the text
\* of the same message with any other credential, and differs from the text
\* of the same message without one.
C9_StringRedactsCredential ==
    (ret.kind = "string" /\ m.auth \in Secrets) =>
        /\ \A s \in Secrets : ret.text = Render([m EXCEPT !.auth = s])
        /\ ret.text # Render([m EXCEPT !.auth = NoAuth])

C9_Witness ==
    /\ ret.kind = "string"
    /\ m.auth = "s1"
    /\ m.toAddrs # <<>>

\* C10: every step is attempted at most once (RCPT TO once per To address),
\* and a failed step is the last one: Send has returned -1 with that step's error.
C10_FailFast ==
    /\ \A op \in {"BUILD", "DIAL", "EHLO", "STARTTLS", "AUTH", "MAIL", "DATA", "WRITE", "CLOSE"} :
          Cardinality(At(op)) <= 1
    /\ Cardinality(At("RCPT")) <= Len(m.toAddrs)
    /\ \A i \in 1..Len(steps) :
          (Failed(i) /\ steps[i].op # "READ") =>
              /\ i = Len(steps)
              /\ Returned
              /\ ret.err = steps[i].op
              /\ ret.code = -1

\* the last call Send made on the client
Last == steps[Len(steps)]

\* the data went out and the read of the server's final status failed
Ambiguous ==
    /\ \E i \in At("WRITE") : steps[i].ok
    /\ Last.op \in {"CLOSE", "READ"}
    /\ Last.out = "io"

\* C11: the error Send returns when the final status could not be read after
\* a successful data transfer is not of the kind it returns when the server
\* rejects a command, so the kind of the error tells the two apart.
C11_AmbiguousOutcomeDistinct ==
    (Returned /\ steps # <<>>) =>
        /\ Ambiguous => (ret.err # "nil" /\ ret.why # "rejected")
        /\ (Last.out = "rejected" /\ ret.err = Last.op) => ret.why = "rejected"

C11_Witness ==
    /\ Returned
    /\ steps # <<>>
    /\ Ambiguous
    /\ Last.op = "CLOSE"

\* C12: a running Send has built the document before anything else; a failed
\* build is all the run does: nothing is dialed, no connection exists and
\* Send has returned -1 with the build error.  MimeBuf hands out the build
\* error with no buffer.
C12_BuildFirst ==
    /\ pc \notin {"idle", "done"} => (steps # <<>> /\ steps[1].op = "BUILD" /\ steps[1].ok)
    /\ \A i \in At("DIAL") : \E j \in At("BUILD") : j < i /\ steps[j].ok
    /\ \A j \in At("BUILD") :
          Failed(j) =>
              /\ Len(steps) = 1
              /\ Returned
              /\ ret.err = "BUILD"
              /\ ret.code = -1
              /\ conn = "none"
    /\ ret.kind = "mime" => (ret.buf = "nil") = (ret.err = "BUILD")

C12_Witness ==
    /\ Returned
    /\ ret.err = "BUILD"
    /\ m.toAddrs # <<>>
    /\ m.host # ""

\* the place of each call in the session
Rank(op) ==
    CASE op = "BUILD" -> 0
      [] op = "DIAL" -> 1
      [] op = "EHLO" -> 2
      [] op = "STARTTLS" -> 3
      [] op = "AUTH" -> 4
      [] op = "MAIL" -> 5
      [] op = "RCPT" -> 6
      [] op = "DATA" -> 7
      [] op = "WRITE" -> 8
      [] op = "CLOSE" -> 9
      [] op = "READ" -> 10

\* the calls no session reaches a later one without
Mandatory == {"BUILD", "DIAL", "EHLO", "MAIL", "DATA", "WRITE", "CLOSE"}

\* C13: the calls of a run are in session order (each call is later in the
\* session than the one before it, or both are RCPT TO), none twice except
\* RCPT TO (at most once per To address), and the latest call has every call
\* the session needs before it; DATA comes only after every To address was
\* declared and accepted.
C13_LinearOrder ==
    /\ \A i \in 1..(Len(steps) - 1) :
          \/ Rank(steps[i].op) < Rank(steps[i + 1].op)
          \/ steps[i].op = "RCPT" /\ steps[i + 1].op = "RCPT"
    /\ steps # <<>> =>
          \A op \in Mandatory : Rank(op) < Rank(Last.op) => At(op) # {}
    /\ Cardinality(At("RCPT")) <= Len(m.toAddrs)
    /\ At("DATA") # {} =>
          /\ Cardinality(At("RCPT")) = Len(m.toAddrs)
          /\ \A i \in At("RCPT") : steps[i].ok
    /\ At("MAIL") = {} => At("RCPT") = {}

C13_Witness ==
    /\ At("READ") # {}
    /\ At("STARTTLS") # {}
    /\ At("AUTH") # {}
    /\ Len(Rcpts) = 2

\* C14: a step of Send, MimeBuf or String leaves every field of the message
\* as it was.
C14_MessageUnchanged ==
    [][call'.name \in {"Send", "MimeBuf", "String"} => m' = m]_vars

C14_Witness ==
    /\ Returned
    /\ call.name = "Send"
    /\ At("MAIL") # {}
    /\ m.fromAddr = <<"b", CR, LF>>
    /\ m.toAddrs # <<>>
    /\ m.bccAddrs # <<>>
    /\ m.auth # NoAuth

\* C15: Send never waits for a reply the server does not owe: whenever Send
\* is blocked in a read, a reply to a command it sent is still unread (or the
\* stream has ended, which ends the read).
C15_NeverWaitsForUnowedReply ==
    (pc = "read" /\ final # NoReply /\ ~peerClosed) => unread # <<>>

\* C16: To(a1..an) leaves the To list holding exactly the n arguments in call
\* order, each with its line breaks removed, whatever it held before, and
\* changes nothing else of the message; Bcc does the same to the Bcc list.
NotBreak(c) == c \notin {CR, LF}

StripBreaks(s) == SelectSeq(s, NotBreak)

Sanitized(args) == [i \in 1..Len(args) |-> StripBreaks(args[i])]

C16_RecipientSettersReplace ==
    [][/\ call'.name = "To" =>
             m' = [m EXCEPT !.toAddrs = Sanitized(call'.args)]
       /\ call'.name = "Bcc" =>
             m' = [m EXCEPT !.bccAddrs = Sanitized(call'.args)]]_vars

====
